---------------------------- MODULE Spec2Model ----------------------------
(***************************************************************************)
(* The workflow catalog tools of google-github-actions/example-workflows:  *)
(*   scripts/generate.go  (second half of src/scripts/new-workflow.go):    *)
(*        generateWorkflow (the Scaffolder), generateReadme                *)
(*   scripts/new-workflow.go (first half): the older Scaffolder            *)
(*   scripts/gen-readme.go: the older README generator                     *)
(*   scripts/release/main.go: the Promoter                                 *)
(*                                                                         *)
(* Strings are sequences of one-character strings, compared bytewise as Go *)
(* compares them; paths are such strings with "/" separators.  The         *)
(* filesystem is a map from path to file content plus a set of directories.*)
(***************************************************************************)
EXTENDS Integers, Sequences, FiniteSets, TLC

(***************************************************************************)
(* Strings (Go: package strings, sort.Strings)                             *)
(***************************************************************************)

\* The characters that occur in the model, in ascending byte order.
Alphabet == <<"+", "-", ".", "/", "A", "D", "E", "M", "R", "a", "b", "c", "d",
              "e", "f", "g", "i", "j", "k", "l", "m", "n", "o", "p", "q", "r",
              "s", "t", "u", "w", "x", "y", "z">>

Code(c) == CHOOSE i \in 1..Len(Alphabet) : Alphabet[i] = c

RECURSIVE StrLess(_, _)
\* Go's < on strings: bytewise lexicographic, a proper prefix is smaller.
StrLess(s, t) ==
    IF t = <<>> THEN FALSE
    ELSE IF s = <<>> THEN TRUE
    ELSE IF Head(s) = Head(t) THEN StrLess(Tail(s), Tail(t))
    ELSE Code(Head(s)) < Code(Head(t))

RECURSIVE Insert(_, _)
Insert(x, sorted) ==
    IF sorted = <<>> THEN <<x>>
    ELSE IF StrLess(Head(sorted), x) THEN <<Head(sorted)>> \o Insert(x, Tail(sorted))
    ELSE <<x>> \o sorted

RECURSIVE InsertionSort(_)
InsertionSort(xs) ==
    IF xs = <<>> THEN <<>> ELSE Insert(Head(xs), InsertionSort(Tail(xs)))

\* A sort that leaves its argument as it is.
SortStringsUnsorted(xs) == xs

\* sort.Strings: the strings of xs in ascending order.
SortStrings(xs) == InsertionSort(xs)

RECURSIVE SplitAcc(_, _, _, _)
SplitAcc(s, sep, cur, acc) ==
    IF s = <<>> THEN Append(acc, cur)
    ELSE IF Head(s) = sep THEN SplitAcc(Tail(s), sep, <<>>, Append(acc, cur))
    ELSE SplitAcc(Tail(s), sep, Append(cur, Head(s)), acc)

\* strings.Split(s, sep) for a one-character separator.
Split(s, sep) == SplitAcc(s, sep, <<>>, <<>>)

RECURSIVE JoinStrings(_, _)
\* strings.Join(parts, sep)
JoinStrings(parts, sep) ==
    IF parts = <<>> THEN <<>>
    ELSE IF Len(parts) = 1 THEN parts[1]
    ELSE parts[1] \o <<sep>> \o JoinStrings(Tail(parts), sep)

\* strings.HasSuffix
HasSuffix(s, suffix) ==
    /\ Len(suffix) <= Len(s)
    /\ SubSeq(s, Len(s) - Len(suffix) + 1, Len(s)) = suffix

\* strings.TrimSuffix
TrimSuffix(s, suffix) ==
    IF HasSuffix(s, suffix) THEN SubSeq(s, 1, Len(s) - Len(suffix)) ELSE s

\* The positions of character c in s.
IndexesOf(s, c) == {i \in 1..Len(s) : s[i] = c}

Max(S) == CHOOSE m \in S : \A n \in S : n <= m

(***************************************************************************)
(* Paths (Go: package path, path/filepath on a slash-separated system)     *)
(***************************************************************************)

RECURSIVE CleanParts(_, _, _)
\* path.Clean's pass over the elements: "" and "." are dropped, ".." removes
\* the element before it (or is kept at the front of a relative path).
CleanParts(parts, rooted, out) ==
    IF parts = <<>> THEN out
    ELSE LET e == Head(parts) IN
         IF e = <<>> \/ e = <<".">> THEN CleanParts(Tail(parts), rooted, out)
         ELSE IF e = <<".", ".">> THEN
              IF out # <<>> /\ out[Len(out)] # <<".", ".">>
              THEN CleanParts(Tail(parts), rooted, SubSeq(out, 1, Len(out) - 1))
              ELSE IF rooted THEN CleanParts(Tail(parts), rooted, out)
              ELSE CleanParts(Tail(parts), rooted, Append(out, e))
         ELSE CleanParts(Tail(parts), rooted, Append(out, e))

\* path.Clean
Clean(p) ==
    IF p = <<>> THEN <<".">>
    ELSE LET rooted == Head(p) = "/"
             body   == JoinStrings(CleanParts(Split(p, "/"), rooted, <<>>), "/")
             full   == IF rooted THEN <<"/">> \o body ELSE body
         IN  IF full = <<>> THEN <<".">> ELSE full

\* path.Join(elems...): the non-empty elements joined by "/" and cleaned.
Join(elems) ==
    LET nonEmpty == SelectSeq(elems, LAMBDA e : e # <<>>)
    IN  IF nonEmpty = <<>> THEN <<>> ELSE Clean(JoinStrings(nonEmpty, "/"))

RECURSIVE StripTrailingSlashes(_)
StripTrailingSlashes(p) ==
    IF p # <<>> /\ p[Len(p)] = "/"
    THEN StripTrailingSlashes(SubSeq(p, 1, Len(p) - 1)) ELSE p

\* path.Base
Base(p) ==
    IF p = <<>> THEN <<".">>
    ELSE LET q == StripTrailingSlashes(p)
             slashes == IndexesOf(q, "/")
             r == IF slashes = {} THEN q ELSE SubSeq(q, Max(slashes) + 1, Len(q))
         IN  IF r = <<>> THEN <<"/">> ELSE r

\* path.Dir
Dir(p) ==
    LET slashes == IndexesOf(p, "/")
    IN  Clean(IF slashes = {} THEN <<>> ELSE SubSeq(p, 1, Max(slashes)))

\* filepath.Ext: the suffix from the last "." of the last element, or "".
Ext(p) ==
    LET slashes == IndexesOf(p, "/")
        from    == IF slashes = {} THEN 1 ELSE Max(slashes) + 1
        dots    == {i \in IndexesOf(p, ".") : i >= from}
    IN  IF dots = {} THEN <<>> ELSE SubSeq(p, Max(dots), Len(p))

(***************************************************************************)
(* Program constants                                                       *)
(***************************************************************************)

propertiesDirName == <<"p", "r", "o", "p", "e", "r", "t", "i", "e", "s">>

templatesDirName == <<"t", "e", "m", "p", "l", "a", "t", "e", "s">>

propertiesTemplPath ==
    Join(<<templatesDirName,
           <<"w", "o", "r", "k", "f", "l", "o", "w", ".", "p", "r", "o", "p", "e",
             "r", "t", "i", "e", "s", ".", "t", "m", "p", "l", ".", "j", "s", "o",
             "n">> >>)

rootWorkflowPath == Join(<< <<"w", "o", "r", "k", "f", "l", "o", "w", "s">> >>)

workflowConfigPath ==
    Join(<< <<"w", "o", "r", "k", "f", "l", "o", "w", ".", "c", "o", "n", "f", "i",
              "g", ".", "j", "s", "o", "n">> >>)

readmeTmplatePath ==
    Join(<<templatesDirName,
           <<"R", "E", "A", "D", "M", "E", ".", "t", "m", "p", "l", ".", "m", "d">> >>)

readmeFileName == <<"R", "E", "A", "D", "M", "E", ".", "m", "d">>

\* defaultEnv("OUTPUT_PATH", "README.md") with the variable unset.
readmeOutputPath == Join(<<readmeFileName>>)

readmeTitle == "Google GitHub Actions - Example Workflows"

\* release: defaultEnv("OUTPUT_PATH", "../starter-workflows") with the variable unset.
outputPath ==
    Clean(Join(<< <<".", ".">>,
                  <<"s", "t", "a", "r", "t", "e", "r", "-", "w", "o", "r", "k", "f",
                    "l", "o", "w", "s">> >>))

outputPropsDirName == <<"p", "r", "o", "p", "e", "r", "t", "i", "e", "s">>

outputFilePrefix == <<"g", "o", "o", "g", "l", "e">>

\* fmt.Sprintf("%s.yml", workflowID)
YmlName(workflowID) == workflowID \o <<".", "y", "m", "l">>

\* fmt.Sprintf("%s.properties.json", workflowID)
PropertiesName(workflowID) ==
    workflowID \o <<".", "p", "r", "o", "p", "e", "r", "t", "i", "e", "s", ".", "j",
                    "s", "o", "n">>

\* fmt.Sprintf("%s-%s", outputFilePrefix, filename)
PrefixedName(filename) == outputFilePrefix \o <<"-">> \o filename

\* The workflow types the contributing guide lists; "deployments" is the
\* default of the type flag.
deployments == <<"d", "e", "p", "l", "o", "y", "m", "e", "n", "t", "s">>

ci == <<"c", "i">>

(***************************************************************************)
(* The filesystem: files (path -> content) and dirs (set of paths).        *)
(* A content is <<kind, payload>>: "json" with the members of the object   *)
(* in the order the file lists them, or a text kind with what the text     *)
(* says.                                                                   *)
(***************************************************************************)

\* The proper ancestors of path p, nearest the root first ("." excluded).
Ancestors(p) ==
    LET parts == Split(p, "/")
    IN  [k \in 1..(Len(parts) - 1) |-> JoinStrings(SubSeq(parts, 1, k), "/")]

SeqRange(s) == {s[k] : k \in 1..Len(s)}

\* The directory a new entry p is created in.
Parent(p) == Dir(p)

IsDir(d, p) == p = <<".">> \/ p \in d

\* os.Stat(p): "nil" when p exists, "ENOTDIR" when an ancestor of p is a
\* regular file, otherwise "ENOENT".
Stat(f, d, p) ==
    IF p \in DOMAIN f \/ IsDir(d, p) THEN "nil"
    ELSE IF \E a \in SeqRange(Ancestors(p)) : a \in DOMAIN f THEN "ENOTDIR"
    ELSE "ENOENT"

\* os.IsNotExist(err)
IsNotExist(err) == err = "ENOENT"

\* Whether os.WriteFile / os.Create can open p for writing.
CanCreate(f, d, p) == IsDir(d, Parent(p)) /\ ~IsDir(d, p)

\* A file written without looking at what is there.
WithFile(f, p, content) ==
    [q \in DOMAIN f \cup {p} |-> IF q = p THEN content ELSE f[q]]

\* A file removed.
WithoutFile(f, p) == [q \in DOMAIN f \ {p} |-> f[q]]

RECURSIVE MkdirAllFrom(_, _, _)
\* os.MkdirAll, directory by directory from the root: the set of directories
\* afterwards and whether every one could be made.
MkdirAllFrom(f, d, todo) ==
    IF todo = <<>> THEN [dirs |-> d, ok |-> TRUE]
    ELSE IF Head(todo) \in DOMAIN f THEN [dirs |-> d, ok |-> FALSE]
    ELSE MkdirAllFrom(f, d \cup ({Head(todo)} \ {<<".">>}), Tail(todo))

MkdirAll(f, d, p) == MkdirAllFrom(f, d, Append(Ancestors(p), p))

\* One "key": value member of a JSON object.
Member(key, value) == [key |-> key, value |-> value]

\* json.Unmarshal of an object into a map: the keys of the members, each with
\* the value of its last member.
Unmarshal(members) ==
    [k \in {members[n].key : n \in 1..Len(members)} |->
        members[Max({n \in 1..Len(members) : members[n].key = k})].value]

\* os.ReadFile + json.Unmarshal: "read" error, "unmarshal" error or the value.
LoadJSON(f, p) ==
    IF p \notin DOMAIN f THEN [err |-> "read", value |-> <<>>]
    ELSE IF f[p][1] # "json" THEN [err |-> "unmarshal", value |-> <<>>]
    ELSE [err |-> "nil", value |-> Unmarshal(f[p][2])]

(***************************************************************************)
(* State                                                                   *)
(***************************************************************************)

VARIABLES
    fs,            \* regular files: path -> content
    dirs,          \* directories
    cmd,           \* the program of the current (or last) run
    pc,            \* "idle", or the step the running program is at
    flags,         \* flag.Args() and the starter and type flags of the run
    wc,            \* the manifest as loaded (map workflow ID -> workflow)
    ids,           \* the workflow IDs in the order the run's loop visits them
    i,             \* the loop's position
    invalid,       \* hasInvalidConfigs / isInvalid
    readmeActions, \* map action name -> readmeAction
    filesToCopy,   \* release: the FileCopyConfig list
    handed,        \* <<config>> once a README config reached the renderer
    stdout,        \* the diagnostics printed with fmt.Println by the run
    exitCode,      \* -1 while running or before any run, else the exit status
    errMsg,        \* the error realMain returned
    ctxDone,       \* the run's context was cancelled by SIGINT / SIGTERM
    runs,          \* programs started so far
    fs0,           \* files when the current run started
    dirs0,         \* directories when the current run started
    last           \* the run before the current one: what it started from, what it did

vars == <<fs, dirs, cmd, pc, flags, wc, ids, i, invalid, readmeActions,
          filesToCopy, handed, stdout, exitCode, errMsg, ctxDone, runs, fs0,
          dirs0, last>>

repo == <<fs, dirs>>

locals == <<wc, ids, i, invalid, readmeActions, filesToCopy, handed>>

\* What does not change while a program runs.
frame == <<cmd, flags, runs, fs0, dirs0, last, ctxDone>>

(***************************************************************************)
(* Bounds and the repositories the runs start from                         *)
(***************************************************************************)

\* The most records a manifest holds.
MaxRecords == 2

\* The most programs run one after the other.
MaxRuns == 2

\* The most README generations run one after the other.
MaxReadmeRuns == 1

WorkflowIDs == {<<"a">>, <<"a", "b">>, <<"b">>}

ActionNames == {<<"p">>, <<"q", "+">>}

\* Where a record's workflow file lies: under an action's directory, or
\* directly under the workflows root (one segment too few).
Shapes == ActionNames \cup {<<>>}

WorkflowPathOf(shape, id) == Join(<<rootWorkflowPath, shape, YmlName(id)>>)

PropertiesPathOf(id) == Join(<<propertiesDirName, PropertiesName(id)>>)

ActionReadmeOf(action) == Join(<<rootWorkflowPath, action, readmeFileName>>)

\* File contents.
JsonOf(value) == <<"json", value>>

Malformed == <<"text", <<"{">> >>

YamlOf(path) == <<"yaml", path>>

\* The `json:"name"` and `json:"description"` tags of propertiesConfig.
nameKey == <<"n", "a", "m", "e">>

descriptionKey == <<"d", "e", "s", "c", "r", "i", "p", "t", "i", "o", "n">>

PropertiesOf(id) ==
    JsonOf(<<Member(nameKey, id), Member(descriptionKey, <<"d">> \o id)>>)

\* json.Unmarshal into a propertiesConfig: the tagged fields, "" when absent.
PropertiesConfig(object) ==
    [name        |-> IF nameKey \in DOMAIN object THEN object[nameKey] ELSE <<>>,
     description |-> IF descriptionKey \in DOMAIN object THEN object[descriptionKey]
                     ELSE <<>>]

\* loadJSONFromFile(&properties, path)
LoadProperties(f, p) ==
    LET loaded == LoadJSON(f, p)
    IN  [err   |-> loaded.err,
         value |-> IF loaded.err = "nil" THEN PropertiesConfig(loaded.value) ELSE <<>>]

TemplateOf(name) == <<"template", name>>

\* The directories a set of files needs.
DirsOf(paths) == UNION {SeqRange(Ancestors(p)) : p \in paths}

Restrict(f, S) == [x \in S |-> f[x]]

\* A run without arguments, the flags at their defaults.
NoFlags == [args |-> <<>>, starter |-> FALSE, type |-> deployments]

NoRun == [cmd |-> "none", flags |-> NoFlags, exitCode |-> -1, fs0 |-> <<>>,
          dirs0 |-> {}]

\* Nothing runs yet.
Idle ==
    /\ cmd = "none"
    /\ pc = "idle"
    /\ flags = NoFlags
    /\ wc = <<>>
    /\ ids = <<>>
    /\ i = 0
    /\ invalid = FALSE
    /\ readmeActions = <<>>
    /\ filesToCopy = <<>>
    /\ handed = <<>>
    /\ stdout = <<>>
    /\ exitCode = -1
    /\ errMsg = "nil"
    /\ ctxDone = FALSE
    /\ runs = 0
    /\ fs0 = <<>>
    /\ dirs0 = {}
    /\ last = NoRun

\* A program is started from the shell.
Launch(program, fl, maxRuns) ==
    /\ pc = "idle"
    /\ runs < maxRuns
    /\ cmd' = program
    /\ pc' = "start"
    /\ flags' = fl
    /\ wc' = <<>>
    /\ ids' = <<>>
    /\ i' = 0
    /\ invalid' = FALSE
    /\ readmeActions' = <<>>
    /\ filesToCopy' = <<>>
    /\ handed' = <<>>
    /\ stdout' = <<>>
    /\ exitCode' = -1
    /\ errMsg' = "nil"
    /\ ctxDone' = FALSE
    /\ runs' = runs + 1
    /\ fs0' = fs
    /\ dirs0' = dirs
    /\ last' = [cmd |-> cmd, flags |-> flags, exitCode |-> exitCode,
                fs0 |-> fs0, dirs0 |-> dirs0]
    /\ UNCHANGED repo

\* main: realMain returned err (code 1, os.Exit(1)) or nil (code 0).
Return(code, msg) ==
    /\ pc' = "idle"
    /\ exitCode' = code
    /\ errMsg' = msg

\* signal.NotifyContext: SIGINT or SIGTERM cancels the run's context.
Signal ==
    /\ pc # "idle"
    /\ ~ctxDone
    /\ ctxDone' = TRUE
    /\ UNCHANGED <<fs, dirs, cmd, pc, flags, wc, ids, i, invalid, readmeActions,
                   filesToCopy, handed, stdout, exitCode, errMsg, runs, fs0,
                   dirs0, last>>

\* Any order a Go map with these keys may be ranged over.
IterationOrders(keys) ==
    {o \in [1..Cardinality(keys) -> keys] : \A k \in keys : \E n \in DOMAIN o : o[n] = k}

\* A serialization that lists the members from the last key to the first.
MarshalIndentDescending(config) ==
    LET keys == SortStrings(CHOOSE o \in IterationOrders(DOMAIN config) : TRUE)
    IN  JsonOf([n \in 1..Len(keys) |->
                   Member(keys[Len(keys) + 1 - n], config[keys[Len(keys) + 1 - n]])])

\* json.MarshalIndent of a map: encoding/json writes the members sorted by
\* key, whatever order the map is ranged over.
MarshalIndent(config) ==
    LET keys == SortStrings(CHOOSE o \in IterationOrders(DOMAIN config) : TRUE)
    IN  JsonOf([n \in 1..Len(keys) |-> Member(keys[n], config[keys[n]])])

(***************************************************************************)
(* Templates (html/template)                                               *)
(***************************************************************************)

RECURSIVE EscapeHTML(_)
\* html/template's escaping of a text value: of the model's characters only
\* "+" is rewritten (to &#43;).
EscapeHTML(s) ==
    IF s = <<>> THEN <<>>
    ELSE (IF Head(s) = "+" THEN <<"&", "#", "4", "3", ";">> ELSE <<Head(s)>>)
         \o EscapeHTML(Tail(s))

ReadmeLine(kind, text, link, mark, desc) ==
    [kind |-> kind, text |-> text, link |-> link, mark |-> mark, desc |-> desc]

\* One table row of templates/README.tmpl.md.
RenderWorkflow(w) ==
    ReadmeLine("row", EscapeHTML(w.RelativeName), EscapeHTML(w.WorkflowPath),
               IF w.Starter THEN "checkmark" ELSE "", EscapeHTML(w.Description))

\* One {{range .Actions}} block: the heading, then the rows.
RenderAction(a) ==
    <<ReadmeLine("section", EscapeHTML(a.Name), EscapeHTML(a.ReadMePath), "", <<>>)>>
    \o [k \in 1..Len(a.Workflows) |-> RenderWorkflow(a.Workflows[k])]

RECURSIVE RenderActions(_)
RenderActions(actions) ==
    IF actions = <<>> THEN <<>>
    ELSE RenderAction(Head(actions)) \o RenderActions(Tail(actions))

\* templates/README.tmpl.md executed on a readmeTemplateConfig.
RenderReadme(config) ==
    <<"index", <<ReadmeLine("title", config.Title, <<>>, "", <<>>)>>
               \o RenderActions(config.Actions)>>

\* templates/workflow.properties.tmpl.json executed on a
\* propertiesTemplateConfig: a properties file naming the workflow.
RenderProperties(config) ==
    JsonOf(<<Member(nameKey, config.WorkflowID), Member(descriptionKey, <<>>)>>)

\* renderTemplate: parse the template, create (truncate) the output, execute.
\* Gives the error and the files afterwards.
renderTemplate(f, d, templatePath, outPath, rendered) ==
    IF templatePath \notin DOMAIN f
    THEN [err |-> "failed to parse template", fs |-> f]
    ELSE IF ~CanCreate(f, d, outPath)
    THEN [err |-> "failed to create file", fs |-> f]
    ELSE [err |-> "nil", fs |-> WithFile(f, outPath, rendered)]

(***************************************************************************)
(* generate readme (generate.go: generateReadme)                           *)
(***************************************************************************)

\* The sort getSortedWorkflowIDs would do if it kept the map's order.
getSortedWorkflowIDsUnsorted(order) == order

\* getSortedWorkflowIDs: the keys, collected in the map's iteration order,
\* then sorted.
getSortedWorkflowIDs(order) == SortStrings(order)

\* getSortedActionNames that keeps the map's order.
getSortedActionNamesUnsorted(actions, order) ==
    [k \in 1..Len(order) |-> actions[order[k]]]

\* getSortedActionNames: the groups in ascending order of their names.
getSortedActionNames(actions, order) ==
    LET actionNames == SortStrings(order)
    IN  [k \in 1..Len(actionNames) |-> actions[actionNames[k]]]

\* validateGenerateReadme that goes on after a missing file.
validateGenerateReadmeAll(f, d, w, readMePath) ==
    SelectSeq(<<w.WorkflowPath, w.PropertiesPath, readMePath>>,
              LAMBDA p : Stat(f, d, p) # "nil")

\* validateGenerateReadme that does not look at the workflow file.
validateGenerateReadmeNoWorkflow(f, d, w, readMePath) ==
    IF Stat(f, d, w.PropertiesPath) # "nil" THEN <<w.PropertiesPath>>
    ELSE IF Stat(f, d, readMePath) # "nil" THEN <<readMePath>>
    ELSE <<>>

\* validateGenerateReadme: the path of the first error, <<>> when all three
\* paths exist.
validateGenerateReadme(f, d, w, readMePath) ==
    IF Stat(f, d, w.WorkflowPath) # "nil" THEN <<w.WorkflowPath>>
    ELSE IF Stat(f, d, w.PropertiesPath) # "nil" THEN <<w.PropertiesPath>>
    ELSE IF Stat(f, d, readMePath) # "nil" THEN <<readMePath>>
    ELSE <<>>

\* The smallest number of segments generateReadme accepts in a workflowPath.
MinWorkflowPathParts == 3

\* A readmeWorkflow that marks every workflow as a starter.
readmeWorkflowAllStarters(workflow, properties, relativeName) ==
    [Name           |-> properties.name,
     RelativeName   |-> relativeName,
     Description    |-> properties.description,
     Starter        |-> TRUE,
     WorkflowPath   |-> workflow.WorkflowPath,
     PropertiesPath |-> workflow.PropertiesPath]

\* The readmeWorkflow appended for a record.
readmeWorkflow(workflow, properties, relativeName) ==
    [Name           |-> properties.name,
     RelativeName   |-> relativeName,
     Description    |-> properties.description,
     Starter        |-> workflow.Starter,
     WorkflowPath   |-> workflow.WorkflowPath,
     PropertiesPath |-> workflow.PropertiesPath]

\* A group that keeps the latest workflow only.
WithWorkflowLatestOnly(actions, actionName, actionPath, actionReadMePath, entry) ==
    [n \in DOMAIN actions \cup {actionName} |->
        IF n = actionName
        THEN [Name |-> actionName, Path |-> actionPath,
              ReadMePath |-> actionReadMePath, Workflows |-> <<entry>>]
        ELSE actions[n]]

\* readmeActions[actionName] with one more workflow, created when absent.
WithWorkflow(actions, actionName, actionPath, actionReadMePath, entry) ==
    LET actionData ==
            IF actionName \in DOMAIN actions THEN actions[actionName]
            ELSE [Name |-> actionName, Path |-> actionPath,
                  ReadMePath |-> actionReadMePath, Workflows |-> <<>>]
        updated == [actionData EXCEPT !.Workflows = Append(@, entry)]
    IN  [n \in DOMAIN actions \cup {actionName} |->
            IF n = actionName THEN updated ELSE actions[n]]

Diagnostic(what, workflowID, path) ==
    [what |-> what, id |-> workflowID, path |-> path]

\* generateReadme up to the loop: load the manifest, sort its keys.
ReadmeLoad ==
    /\ cmd = "readme"
    /\ pc = "start"
    /\ LET loaded == LoadJSON(fs, workflowConfigPath) IN
       IF loaded.err # "nil"
       THEN /\ Return(1, "failed to load workflow config")
            /\ UNCHANGED <<wc, ids, i>>
       ELSE /\ wc' = loaded.value
            /\ \E order \in IterationOrders(DOMAIN loaded.value) :
                   ids' = getSortedWorkflowIDs(order)
            /\ i' = 1
            /\ pc' = "loop"
            /\ UNCHANGED <<exitCode, errMsg>>
    /\ UNCHANGED <<repo, frame, invalid, readmeActions, filesToCopy, handed, stdout>>

\* One pass of generateReadme's loop.
ReadmeRecord ==
    /\ cmd = "readme"
    /\ pc = "loop"
    /\ i <= Len(ids)
    /\ LET workflowID == ids[i]
           workflow == wc[workflowID]
           workflowPathParts == Split(workflow.WorkflowPath, "/")
       IN
       IF Len(workflowPathParts) < MinWorkflowPathParts
       THEN /\ Return(1, "invalid workflow path")
            /\ UNCHANGED <<i, invalid, readmeActions, stdout>>
       ELSE
       LET actionName == workflowPathParts[2]
           actionPath == Join(SubSeq(workflowPathParts, 1, 2))
           actionReadMePath == Join(<<actionPath, readmeFileName>>)
           workflowSubPath ==
               Join(SubSeq(workflowPathParts, 3, Len(workflowPathParts)))
           workflowRelativeName == TrimSuffix(workflowSubPath, Ext(workflowSubPath))
           failed == validateGenerateReadme(fs, dirs, workflow, actionReadMePath)
           properties == LoadProperties(fs, workflow.PropertiesPath)
       IN
       IF failed # <<>>
       THEN /\ stdout' = stdout \o
                  [k \in 1..Len(failed) |->
                      Diagnostic("validation failed", workflowID, failed[k])]
            /\ invalid' = TRUE
            /\ i' = i + 1
            /\ UNCHANGED <<pc, exitCode, errMsg, readmeActions>>
       ELSE IF properties.err # "nil"
       THEN /\ Return(1, "failed to load properties file")
            /\ UNCHANGED <<i, invalid, readmeActions, stdout>>
       ELSE /\ readmeActions' =
                  WithWorkflow(readmeActions, actionName, actionPath, actionReadMePath,
                      readmeWorkflow(workflow, properties.value, workflowRelativeName))
            /\ i' = i + 1
            /\ UNCHANGED <<pc, exitCode, errMsg, invalid, stdout>>
    /\ UNCHANGED <<repo, frame, wc, ids, filesToCopy, handed>>

\* After the loop: fail on invalid records, else sort the groups.
ReadmeSort ==
    /\ cmd = "readme"
    /\ pc = "loop"
    /\ i > Len(ids)
    /\ IF invalid
       THEN /\ Return(1, "failed to process invalid configs")
            /\ UNCHANGED handed
       ELSE /\ \E order \in IterationOrders(DOMAIN readmeActions) :
                   handed' = <<[Title   |-> readmeTitle,
                                Actions |-> getSortedActionNames(readmeActions, order)]>>
            /\ pc' = "render"
            /\ UNCHANGED <<exitCode, errMsg>>
    /\ UNCHANGED <<repo, frame, wc, ids, i, invalid, readmeActions, filesToCopy, stdout>>

\* renderTemplate(readmeTmplatePath, readmeOutputPath, readmeTemplateConfigs)
ReadmeRender ==
    /\ cmd = "readme"
    /\ pc = "render"
    /\ LET r == renderTemplate(fs, dirs, readmeTmplatePath, readmeOutputPath,
                               RenderReadme(handed[1]))
       IN  /\ fs' = r.fs
           /\ IF r.err # "nil"
              THEN Return(1, "failed to render readme template")
              ELSE Return(0, "nil")
    /\ UNCHANGED <<dirs, frame, locals, stdout>>

StartReadme ==
    Launch("readme", [args |-> <<"readme">>, starter |-> FALSE, type |-> deployments],
           MaxReadmeRuns)

(***************************************************************************)
(* gen-readme.go: realMain, the older README generator                     *)
(***************************************************************************)

\* fmt.Sprintf("# %s examples", actionName)
ActionReadmeStub(actionName) == <<"readme", actionName>>

\* The smallest number of segments gen-readme.go accepts in a workflowPath.
GenReadmeMinParts == 2

GenReadmeLoad ==
    /\ cmd = "gen-readme"
    /\ pc = "start"
    /\ LET loaded == LoadJSON(fs, workflowConfigPath) IN
       IF loaded.err # "nil"
       THEN /\ Return(1, IF loaded.err = "read"
                         THEN "failed to read workflow config file"
                         ELSE "failed to unmarshal workflow config")
            /\ UNCHANGED <<wc, ids, i>>
       ELSE /\ wc' = loaded.value
            /\ \E order \in IterationOrders(DOMAIN loaded.value) :
                   ids' = getSortedWorkflowIDs(order)
            /\ i' = 1
            /\ pc' = "loop"
            /\ UNCHANGED <<exitCode, errMsg>>
    /\ UNCHANGED <<repo, frame, invalid, readmeActions, filesToCopy, handed, stdout>>

\* One pass of realMain's loop.
GenReadmeRecord ==
    /\ cmd = "gen-readme"
    /\ pc = "loop"
    /\ i <= Len(ids)
    /\ LET workflowID == ids[i]
           workflow == wc[workflowID]
           workflowMissing == IsNotExist(Stat(fs, dirs, workflow.WorkflowPath))
           readErr == IF workflow.PropertiesPath \in DOMAIN fs THEN "nil"
                      ELSE IF IsDir(dirs, workflow.PropertiesPath) THEN "EISDIR"
                      ELSE Stat(fs, dirs, workflow.PropertiesPath)
           propertiesMissing == IsNotExist(readErr)
           printed ==
               (IF workflowMissing
                THEN <<Diagnostic("workflow file does not exist", workflowID,
                                  workflow.WorkflowPath)>>
                ELSE <<>>)
               \o (IF propertiesMissing
                   THEN <<Diagnostic("properties file does not exist", workflowID,
                                     workflow.PropertiesPath)>>
                   ELSE <<>>)
           hasInvalidConfigs == invalid \/ workflowMissing \/ propertiesMissing
           properties == LoadProperties(fs, workflow.PropertiesPath)
           parts == Split(workflow.WorkflowPath, "/")
       IN
       /\ stdout' = stdout \o printed
       /\ invalid' = hasInvalidConfigs
       /\ IF readErr # "nil" /\ ~propertiesMissing
          THEN /\ Return(1, "failed to read properties file")
               /\ UNCHANGED <<fs, i, readmeActions>>
          ELSE IF hasInvalidConfigs
          THEN /\ i' = i + 1
               /\ UNCHANGED <<fs, pc, exitCode, errMsg, readmeActions>>
          ELSE IF properties.err # "nil"
          THEN /\ Return(1, "failed to unmarshal properties file")
               /\ UNCHANGED <<fs, i, readmeActions>>
          ELSE IF Len(parts) < GenReadmeMinParts
          THEN /\ Return(1, "invalid workflow path")
               /\ UNCHANGED <<fs, i, readmeActions>>
          ELSE
          LET actionName == parts[2]
              actionPath == Join(SubSeq(parts, 1, 2))
              actionReadMePath == Join(<<actionPath, readmeFileName>>)
              readmeErr == Stat(fs, dirs, actionReadMePath)
              workflowSubPath == Join(SubSeq(parts, 3, Len(parts)))
              workflowRelativeName == TrimSuffix(workflowSubPath, Ext(workflowSubPath))
          IN
          IF readmeErr # "nil" /\ ~IsNotExist(readmeErr)
          THEN /\ Return(1, "failed to validate README file exists")
               /\ UNCHANGED <<fs, i, readmeActions>>
          ELSE IF IsNotExist(readmeErr) /\ ~CanCreate(fs, dirs, actionReadMePath)
          THEN /\ Return(1, "failed writing content to action README file")
               /\ UNCHANGED <<fs, i, readmeActions>>
          ELSE /\ fs' = IF IsNotExist(readmeErr)
                        THEN WithFile(fs, actionReadMePath, ActionReadmeStub(actionName))
                        ELSE fs
               /\ readmeActions' =
                     WithWorkflow(readmeActions, actionName, actionPath, actionReadMePath,
                         readmeWorkflow(workflow, properties.value, workflowRelativeName))
               /\ i' = i + 1
               /\ UNCHANGED <<pc, exitCode, errMsg>>
    /\ UNCHANGED <<dirs, frame, wc, ids, filesToCopy, handed>>

\* After the loop: the groups are sorted, then invalid records fail the run.
GenReadmeSort ==
    /\ cmd = "gen-readme"
    /\ pc = "loop"
    /\ i > Len(ids)
    /\ IF invalid
       THEN /\ Return(1, "failed to process invalid configs")
            /\ UNCHANGED handed
       ELSE /\ \E order \in IterationOrders(DOMAIN readmeActions) :
                   handed' = <<[Title   |-> readmeTitle,
                                Actions |-> getSortedActionNames(readmeActions, order)]>>
            /\ pc' = "render"
            /\ UNCHANGED <<exitCode, errMsg>>
    /\ UNCHANGED <<repo, frame, wc, ids, i, invalid, readmeActions, filesToCopy, stdout>>

\* renderReadmeTemplate(readmeTemplateConfigs)
GenReadmeRender ==
    /\ cmd = "gen-readme"
    /\ pc = "render"
    /\ LET r == renderTemplate(fs, dirs, readmeTmplatePath, readmeOutputPath,
                               RenderReadme(handed[1]))
       IN  /\ fs' = r.fs
           /\ IF r.err # "nil"
              THEN Return(1, "failed to render readme template")
              ELSE Return(0, "nil")
    /\ UNCHANGED <<dirs, frame, locals, stdout>>

StartGenReadme ==
    Launch("gen-readme", NoFlags, MaxReadmeRuns)

(***************************************************************************)
(* README generation from every repository within the bounds               *)
(***************************************************************************)

PropertiesStates == {"ok", "missing", "malformed"}

\* A manifest record as the Scaffolder writes it, for a workflow file lying
\* at `shape`.
RecordOf(id, shape, starter, type) ==
    [Starter        |-> starter,
     Type           |-> type,
     WorkflowPath   |-> WorkflowPathOf(shape, id),
     PropertiesPath |-> PropertiesPathOf(id)]

\* The files every checkout has.
TemplateFiles ==
    [p \in {readmeTmplatePath, propertiesTemplPath} |-> TemplateOf(p)]

BaseDirs == {rootWorkflowPath, propertiesDirName, templatesDirName}

Merge(f, g) == [x \in DOMAIN f \cup DOMAIN g |-> IF x \in DOMAIN g THEN g[x] ELSE f[x]]

\* The files of a repository: the manifest, the workflow files of `present`,
\* the properties files as `props` says, the action READMEs of `readmes`.
RepoFiles(manifest, present, props, readmes) ==
    LET keys == DOMAIN manifest
        wfs == {manifest[id].WorkflowPath : id \in present}
        pps == {manifest[id].PropertiesPath : id \in {k \in keys : props[k] # "missing"}}
        idOf(path) == CHOOSE id \in keys : manifest[id].PropertiesPath = path
        rds == {ActionReadmeOf(a) : a \in readmes}
        actionOf(path) == CHOOSE a \in readmes : ActionReadmeOf(a) = path
    IN  Merge(Merge(Merge(Merge(TemplateFiles,
            [p \in {workflowConfigPath} |-> MarshalIndent(manifest)]),
            [p \in wfs |-> YamlOf(p)]),
            [p \in pps |-> IF props[idOf(p)] = "ok" THEN PropertiesOf(idOf(p))
                           ELSE Malformed]),
            [p \in rds |-> ActionReadmeStub(actionOf(p))])

\* The records of the bounded manifests that are starter workflows.
StarterIDs == {<<"a">>, <<"b">>}

ManifestStates == {"ok", "missing", "malformed"}

\* The manifest file in one of its states (missing, or not JSON).
WithManifestState(f, state) ==
    IF state = "missing" THEN WithoutFile(f, workflowConfigPath)
    ELSE IF state = "malformed" THEN WithFile(f, workflowConfigPath, Malformed)
    ELSE f

InitReadme ==
    /\ Idle
    /\ \E keys \in SUBSET WorkflowIDs :
         /\ Cardinality(keys) <= MaxRecords
         /\ \E shape \in [keys -> Shapes], present \in SUBSET keys,
               props \in [keys -> PropertiesStates], readmes \in SUBSET ActionNames,
               state \in ManifestStates, template \in BOOLEAN :
              LET manifest == [id \in keys |->
                                  RecordOf(id, shape[id], id \in StarterIDs, deployments)]
                  files == WithManifestState(
                               RepoFiles(manifest, present, props, readmes), state)
              IN  /\ state # "ok" => keys = {} /\ readmes = {}
                  \* The template is read only by a run that gets to render.
                  /\ ~template => /\ state = "ok"
                                  /\ present = keys
                                  /\ \A id \in keys : props[id] = "ok"
                  /\ fs = IF template THEN files
                          ELSE WithoutFile(files, readmeTmplatePath)
                  /\ dirs = BaseDirs \cup DirsOf(DOMAIN fs)

NextReadme ==
    \/ StartReadme
    \/ ReadmeLoad
    \/ ReadmeRecord
    \/ ReadmeSort
    \/ ReadmeRender
    \/ StartGenReadme
    \/ GenReadmeLoad
    \/ GenReadmeRecord
    \/ GenReadmeSort
    \/ GenReadmeRender

SpecReadme == InitReadme /\ [][NextReadme]_vars

(***************************************************************************)
(* generate workflow (generate.go: generateWorkflow) and the older         *)
(* new-workflow.go (realMain): the Scaffolder                              *)
(***************************************************************************)

ScaffoldPrograms == {"workflow", "new-workflow"}

\* The positional argument naming the workflow: args[1] of generate.go
\* (args[0] is the command), args[0] of new-workflow.go.
workflowArg(program, args) == IF program = "workflow" THEN args[2] ELSE args[1]

\* The number of arguments each program insists on.
ExpectedArgs(program) == IF program = "workflow" THEN 2 ELSE 1

\* A workflowID that is the whole argument instead of its last segment.
workflowIDWholeArg(arg) == arg

workflowID(arg) == Base(arg)

workflowDir(arg) == Join(<<rootWorkflowPath, Dir(arg)>>)

workflowFilePath(arg) == Join(<<workflowDir(arg), YmlName(workflowID(arg))>>)

workflowDirParts(arg) == Split(workflowDir(arg), "/")

\* The fewest segments of workflowDir both scaffolders accept.
MinWorkflowDirParts == 2

actionName(arg) == workflowDirParts(arg)[2]

actionPath(arg) == Join(SubSeq(workflowDirParts(arg), 1, 2))

actionReadMePath(arg) == Join(<<actionPath(arg), readmeFileName>>)

propertiesFilePath(arg) ==
    Join(<<propertiesDirName, PropertiesName(workflowID(arg))>>)

\* "# TODO: Add meaningful workflow content here."
WorkflowPlaceholder == <<"todo", <<>> >>

\* An entry that takes the defaults of the flags, whatever was given.
NewRecordDefaults(arg, fl) ==
    [Starter        |-> FALSE,
     Type           |-> deployments,
     WorkflowPath   |-> workflowFilePath(arg),
     PropertiesPath |-> propertiesFilePath(arg)]

\* An entry whose workflowPath leaves the workflow's directory out.
NewRecordWithoutDir(arg, fl) ==
    [Starter        |-> fl.starter,
     Type           |-> fl.type,
     WorkflowPath   |-> Join(<<rootWorkflowPath, YmlName(workflowID(arg))>>),
     PropertiesPath |-> propertiesFilePath(arg)]

\* The entry generateWorkflow adds to the manifest.
NewRecord(arg, fl) ==
    [Starter        |-> fl.starter,
     Type           |-> fl.type,
     WorkflowPath   |-> workflowFilePath(arg),
     PropertiesPath |-> propertiesFilePath(arg)]

\* A duplicate check that finds nothing.
IsDuplicateNever(config, arg) == FALSE

\* The workflow ID is a key of the loaded manifest.
IsDuplicate(config, arg) == workflowID(arg) \in DOMAIN config

\* A collision check that finds nothing.
PathCollidesNever(f, d, arg) == FALSE

\* os.Stat(workflowFilePath) gave no error.
PathCollides(f, d, arg) == Stat(f, d, workflowFilePath(arg)) = "nil"

\* The checks of generateWorkflow, in its order: the argument count, the
\* manifest, the depth of the directory, the ID, the workflow file.
WorkflowChecks ==
    /\ cmd = "workflow"
    /\ pc = "start"
    /\ LET loaded == LoadJSON(fs, workflowConfigPath)
           arg == workflowArg(cmd, flags.args)
       IN
       IF Len(flags.args) # ExpectedArgs(cmd)
       THEN Return(1, "expected 2 arguments") /\ UNCHANGED wc
       ELSE IF loaded.err # "nil"
       THEN Return(1, "failed to load workflow config") /\ UNCHANGED wc
       ELSE IF Len(workflowDirParts(arg)) < MinWorkflowDirParts
       THEN Return(1, "invalid workflow path") /\ UNCHANGED wc
       ELSE IF IsDuplicate(loaded.value, arg)
       THEN Return(1, "workflow exists") /\ UNCHANGED wc
       ELSE IF PathCollides(fs, dirs, arg)
       THEN Return(1, "workflow file already exists") /\ UNCHANGED wc
       ELSE /\ wc' = loaded.value
            /\ pc' = "mkdir"
            /\ UNCHANGED <<exitCode, errMsg>>
    /\ UNCHANGED <<repo, frame, ids, i, invalid, readmeActions, filesToCopy,
                   handed, stdout>>

\* The checks of new-workflow.go's realMain, in its order: the argument
\* count, the depth of the directory, the manifest, the ID, the workflow file.
NewWorkflowChecks ==
    /\ cmd = "new-workflow"
    /\ pc = "start"
    /\ LET loaded == LoadJSON(fs, workflowConfigPath)
           arg == workflowArg(cmd, flags.args)
       IN
       IF Len(flags.args) # ExpectedArgs(cmd)
       THEN Return(1, "expected 1 argument") /\ UNCHANGED wc
       ELSE IF Len(workflowDirParts(arg)) < MinWorkflowDirParts
       THEN Return(1, "invalid workflow path") /\ UNCHANGED wc
       ELSE IF loaded.err # "nil"
       THEN Return(1, IF loaded.err = "read" THEN "failed to read config file"
                      ELSE "failed to unmarshal config") /\ UNCHANGED wc
       ELSE IF IsDuplicate(loaded.value, arg)
       THEN Return(1, "workflow exists") /\ UNCHANGED wc
       ELSE IF PathCollides(fs, dirs, arg)
       THEN Return(1, "workflow file already exists") /\ UNCHANGED wc
       ELSE /\ wc' = loaded.value
            /\ pc' = "mkdir"
            /\ UNCHANGED <<exitCode, errMsg>>
    /\ UNCHANGED <<repo, frame, ids, i, invalid, readmeActions, filesToCopy,
                   handed, stdout>>

\* os.MkdirAll(workflowDir, 0755)
ScaffoldMkdir ==
    /\ cmd \in ScaffoldPrograms
    /\ pc = "mkdir"
    /\ LET made == MkdirAll(fs, dirs, workflowDir(workflowArg(cmd, flags.args)))
       IN  /\ dirs' = made.dirs
           /\ IF made.ok
              THEN pc' = "readme" /\ UNCHANGED <<exitCode, errMsg>>
              ELSE Return(1, "failed to create workflow directory")
    /\ UNCHANGED <<fs, frame, locals, stdout>>

\* The action README: written when os.Stat says it does not exist.
ScaffoldActionReadme ==
    /\ cmd \in ScaffoldPrograms
    /\ pc = "readme"
    /\ LET arg == workflowArg(cmd, flags.args)
           err == Stat(fs, dirs, actionReadMePath(arg))
       IN
       IF IsNotExist(err)
       THEN IF CanCreate(fs, dirs, actionReadMePath(arg))
            THEN /\ fs' = WithFile(fs, actionReadMePath(arg),
                                   ActionReadmeStub(actionName(arg)))
                 /\ pc' = "file"
                 /\ UNCHANGED <<exitCode, errMsg>>
            ELSE /\ Return(1, "failed writing content to action README file")
                 /\ UNCHANGED fs
       ELSE IF err # "nil"
       THEN Return(1, "failed to validate README exists") /\ UNCHANGED fs
       ELSE /\ pc' = "file"
            /\ UNCHANGED <<fs, exitCode, errMsg>>
    /\ UNCHANGED <<dirs, frame, locals, stdout>>

\* A workflow file step that writes the manifest as well, before the
\* properties stub is rendered.
ScaffoldWorkflowFileAndConfig ==
    /\ cmd \in ScaffoldPrograms
    /\ pc = "file"
    /\ LET arg == workflowArg(cmd, flags.args)
           id == workflowID(arg)
           updated == [k \in DOMAIN wc \cup {id} |->
                          IF k = id THEN NewRecord(arg, flags) ELSE wc[k]]
       IN
       IF CanCreate(fs, dirs, workflowFilePath(arg))
       THEN /\ fs' = WithFile(WithFile(fs, workflowFilePath(arg), WorkflowPlaceholder),
                              workflowConfigPath, MarshalIndent(updated))
            /\ pc' = "properties"
            /\ UNCHANGED <<exitCode, errMsg>>
       ELSE /\ Return(1, "writing content to workflow file")
            /\ UNCHANGED fs
    /\ UNCHANGED <<dirs, frame, locals, stdout>>

\* os.WriteFile(workflowFilePath, placeholder)
ScaffoldWorkflowFile ==
    /\ cmd \in ScaffoldPrograms
    /\ pc = "file"
    /\ LET arg == workflowArg(cmd, flags.args) IN
       IF CanCreate(fs, dirs, workflowFilePath(arg))
       THEN /\ fs' = WithFile(fs, workflowFilePath(arg), WorkflowPlaceholder)
            /\ pc' = "properties"
            /\ UNCHANGED <<exitCode, errMsg>>
       ELSE /\ Return(1, "writing content to workflow file")
            /\ UNCHANGED fs
    /\ UNCHANGED <<dirs, frame, locals, stdout>>

\* The properties stub: template.ParseFiles, os.Create, Execute.
ScaffoldProperties ==
    /\ cmd \in ScaffoldPrograms
    /\ pc = "properties"
    /\ LET arg == workflowArg(cmd, flags.args)
           r == renderTemplate(fs, dirs, propertiesTemplPath, propertiesFilePath(arg),
                               RenderProperties([WorkflowID |-> workflowID(arg)]))
       IN  /\ fs' = r.fs
           /\ IF r.err # "nil"
              THEN Return(1, IF cmd = "workflow"
                             THEN "failed to render properties template"
                             ELSE IF r.err = "failed to parse template"
                             THEN "failed to create properties template"
                             ELSE "failed to create properties file")
              ELSE pc' = "config" /\ UNCHANGED <<exitCode, errMsg>>
    /\ UNCHANGED <<dirs, frame, locals, stdout>>

\* The new entry, and the whole manifest written back.
ScaffoldConfig ==
    /\ cmd \in ScaffoldPrograms
    /\ pc = "config"
    /\ LET arg == workflowArg(cmd, flags.args)
           id == workflowID(arg)
           updated == [k \in DOMAIN wc \cup {id} |->
                          IF k = id THEN NewRecord(arg, flags) ELSE wc[k]]
       IN  /\ wc' = updated
           /\ IF CanCreate(fs, dirs, workflowConfigPath)
              THEN /\ fs' = WithFile(fs, workflowConfigPath, MarshalIndent(updated))
                   /\ Return(0, "nil")
              ELSE /\ Return(1, "failed to write update workflow config")
                   /\ UNCHANGED fs
    /\ UNCHANGED <<dirs, frame, ids, i, invalid, readmeActions, filesToCopy,
                   handed, stdout>>

\* What may be typed after the program's name: a workflow under an action
\* directory, the same ID under another action, another ID, a bare name
\* without a directory, and nothing at all.
ScaffoldArgs ==
    {<<"p", "/", "a">>, <<"q", "/", "a">>, <<"p", "/", "b">>, <<"a">>}

ScaffoldPositionals == {<<arg>> : arg \in ScaffoldArgs} \cup {<<>>}

\* A type the documentation does not list.
otherType == <<"x">>

\* The -starter and -type flags a run is given.
ScaffoldFlags ==
    {[starter |-> FALSE, type |-> deployments],
     [starter |-> TRUE,  type |-> ci],
     [starter |-> TRUE,  type |-> otherType]}

\* A repository keeps to one of the two scaffolding scripts.
SameScript(program) == runs = 0 \/ cmd = program

StartWorkflow ==
    /\ SameScript("workflow")
    /\ \E pos \in ScaffoldPositionals, fl \in ScaffoldFlags :
          Launch("workflow", [args |-> <<"workflow">> \o pos,
                              starter |-> fl.starter, type |-> fl.type], MaxRuns)

StartNewWorkflow ==
    /\ SameScript("new-workflow")
    /\ \E pos \in ScaffoldPositionals, fl \in ScaffoldFlags :
          Launch("new-workflow", [args |-> pos,
                                  starter |-> fl.starter, type |-> fl.type], MaxRuns)

\* What lies where the action q is to go: nothing, a workflow file q/a.yml
\* nobody registered, or a regular file called q.
StrayStates == {"none", "workflow", "file"}

\* The content of a file that is no workflow, manifest or template.
PlainFile == <<"text", <<>> >>

\* The repositories a scaffolding run may find: a manifest that is empty or
\* has the record of p/a with its files, or no readable manifest; a workflow
\* file q/a.yml nobody registered, or a file where the directory of q would
\* be; a properties stub for b left by hand; the properties directory or its
\* template missing.
InitScaffold ==
    /\ Idle
    /\ \E hasRecord \in BOOLEAN, state \in ManifestStates, stray \in StrayStates,
          stubB \in BOOLEAN, propsDir \in BOOLEAN,
          template \in BOOLEAN :
         LET keys == IF hasRecord THEN {<<"a">>} ELSE {}
             manifest == [id \in keys |-> RecordOf(id, <<"p">>, TRUE, deployments)]
             base == WithManifestState(
                         RepoFiles(manifest, keys, [id \in keys |-> "ok"],
                                   IF hasRecord THEN {<<"p">>} ELSE {}), state)
             withStray == IF stray = "workflow"
                          THEN WithFile(base, WorkflowPathOf(<<"q">>, <<"a">>),
                                        YamlOf(WorkflowPathOf(<<"q">>, <<"a">>)))
                          ELSE IF stray = "file"
                          THEN WithFile(base, Join(<<rootWorkflowPath, <<"q">> >>),
                                        PlainFile)
                          ELSE base
             withStub == IF stubB
                         THEN WithFile(withStray, PropertiesPathOf(<<"b">>),
                                       PropertiesOf(<<"b">>))
                         ELSE withStray
             files == IF template THEN withStub
                      ELSE WithoutFile(withStub, propertiesTemplPath)
         IN  /\ state # "ok" => ~hasRecord
             /\ ~propsDir => ~hasRecord /\ ~stubB
             /\ fs = files
             /\ dirs = (BaseDirs \cup DirsOf(DOMAIN fs))
                       \ (IF propsDir THEN {} ELSE {propertiesDirName})

NextScaffold ==
    \/ StartWorkflow
    \/ WorkflowChecks
    \/ StartNewWorkflow
    \/ NewWorkflowChecks
    \/ ScaffoldMkdir
    \/ ScaffoldActionReadme
    \/ ScaffoldWorkflowFile
    \/ ScaffoldProperties
    \/ ScaffoldConfig

SpecScaffold == InitScaffold /\ [][NextScaffold]_vars

(***************************************************************************)
(* release/main.go (realMain): the Promoter                                *)
(***************************************************************************)

\* os.Remove(p), its error dropped: a file goes, an empty directory goes,
\* anything else stays as it is.
Remove(f, d, p) ==
    IF p \in DOMAIN f THEN [fs |-> WithoutFile(f, p), dirs |-> d]
    ELSE IF p \in d /\ ~\E q \in DOMAIN f \cup d : q # p /\ Parent(q) = p
    THEN [fs |-> f, dirs |-> d \ {p}]
    ELSE [fs |-> f, dirs |-> d]

\* Whether os.Link(source, dest) succeeds: the source is a file, the
\* destination is free and its directory exists.
CanLink(f, d, source, dest) ==
    /\ source \in DOMAIN f
    /\ dest \notin DOMAIN f
    /\ ~IsDir(d, dest)
    /\ IsDir(d, Parent(dest))

\* The destination of a record's workflow file.
WorkflowDest(workflow) ==
    Join(<<outputPath, workflow.Type, PrefixedName(Base(workflow.WorkflowPath))>>)

\* The destination of a record's properties file.
PropertiesDest(workflow) ==
    Join(<<outputPath, workflow.Type, outputPropsDirName,
           PrefixedName(Base(workflow.PropertiesPath))>>)

FileCopyConfig(source, dest) == [Source |-> source, Dest |-> dest]

\* A promotion that goes on whatever the validation found.
MustAbortNever(isInvalid) == FALSE

\* if isInvalid { return error }
MustAbort(isInvalid) == isInvalid

\* Load the manifest; the loop will range over the map in Go's own order.
ReleaseLoad ==
    /\ cmd = "release"
    /\ pc = "start"
    /\ LET loaded == LoadJSON(fs, workflowConfigPath) IN
       IF loaded.err # "nil"
       THEN /\ Return(1, IF loaded.err = "read" THEN "failed to read config file"
                         ELSE "failed to unmarshal config")
            /\ UNCHANGED <<wc, ids, i>>
       ELSE /\ wc' = loaded.value
            /\ \E order \in IterationOrders(DOMAIN loaded.value) : ids' = order
            /\ i' = 1
            /\ pc' = "loop"
            /\ UNCHANGED <<exitCode, errMsg>>
    /\ UNCHANGED <<repo, frame, invalid, readmeActions, filesToCopy, handed, stdout>>

\* One pass of the loop over the manifest: a starter record is checked and
\* its two files are put on the copy list, valid or not.
ReleaseRecord ==
    /\ cmd = "release"
    /\ pc = "loop"
    /\ i <= Len(ids)
    /\ LET id == ids[i]
           workflow == wc[id]
           noWorkflow == IsNotExist(Stat(fs, dirs, workflow.WorkflowPath))
           noProperties == IsNotExist(Stat(fs, dirs, workflow.PropertiesPath))
       IN
       IF ~workflow.Starter
       THEN UNCHANGED <<invalid, stdout, filesToCopy>>
       ELSE /\ invalid' = (invalid \/ noWorkflow \/ noProperties)
            /\ stdout' = stdout
                 \o (IF noWorkflow
                     THEN <<Diagnostic("workflow file does not exist", id,
                                       workflow.WorkflowPath)>>
                     ELSE <<>>)
                 \o (IF noProperties
                     THEN <<Diagnostic("properties file does not exist", id,
                                       workflow.PropertiesPath)>>
                     ELSE <<>>)
            /\ filesToCopy' = filesToCopy
                 \o <<FileCopyConfig(workflow.WorkflowPath, WorkflowDest(workflow)),
                      FileCopyConfig(workflow.PropertiesPath, PropertiesDest(workflow))>>
    /\ i' = i + 1
    /\ UNCHANGED <<repo, frame, pc, wc, ids, readmeActions, handed, exitCode, errMsg>>

\* After the loop: fail on any invalid record, else go on to copy.
ReleaseValidate ==
    /\ cmd = "release"
    /\ pc = "loop"
    /\ i > Len(ids)
    /\ IF MustAbort(invalid)
       THEN Return(1, "failed to process invalid configs") /\ UNCHANGED i
       ELSE IF filesToCopy = <<>>
       THEN Return(0, "nil") /\ UNCHANGED i
       ELSE /\ pc' = "copy"
            /\ i' = 1
            /\ UNCHANGED <<exitCode, errMsg>>
    /\ UNCHANGED <<repo, frame, wc, ids, invalid, readmeActions, filesToCopy,
                   handed, stdout>>

\* One pass of the copy loop: os.Remove(file.Dest), then os.Link.
ReleaseCopy ==
    /\ cmd = "release"
    /\ pc = "copy"
    /\ i <= Len(filesToCopy)
    /\ LET file == filesToCopy[i]
           removed == Remove(fs, dirs, file.Dest)
       IN
       /\ dirs' = removed.dirs
       /\ IF CanLink(removed.fs, removed.dirs, file.Source, file.Dest)
          THEN /\ fs' = WithFile(removed.fs, file.Dest, removed.fs[file.Source])
               /\ stdout' = Append(stdout,
                      [what |-> "successfully copied", id |-> file.Source,
                       path |-> file.Dest])
               /\ IF i = Len(filesToCopy)
                  THEN Return(0, "nil") /\ UNCHANGED i
                  ELSE i' = i + 1 /\ UNCHANGED <<pc, exitCode, errMsg>>
          ELSE /\ fs' = removed.fs
               /\ Return(1, "failed to copy files")
               /\ UNCHANGED <<i, stdout>>
    /\ UNCHANGED <<frame, wc, ids, invalid, readmeActions, filesToCopy, handed>>

StartRelease == Launch("release", NoFlags, MaxRuns)

\* How a record of the bounded manifests stands to promotion: a starter
\* workflow named after its ID, a starter workflow whose file is called
\* x.yml like another action's, or a workflow that is no starter.
ReleaseKinds == {"own", "shared", "plain"}

\* Which of a record's two files are on disk.
FileStates == {"ok", "noWorkflow", "noProperties"}

\* The action directory of a record's x.yml.
ActionOf(id) == IF id = <<"a", "b">> THEN <<"q">> ELSE <<"p">>

\* The type each record of the bounded manifests has.
TypeOf(id) == IF id = <<"b">> THEN ci ELSE deployments

ReleaseRecordOf(id, kind) ==
    [Starter        |-> kind # "plain",
     Type           |-> TypeOf(id),
     WorkflowPath   |-> IF kind = "shared" THEN WorkflowPathOf(ActionOf(id), <<"x">>)
                        ELSE WorkflowPathOf(<<"p">>, id),
     PropertiesPath |-> PropertiesPathOf(id)]

\* The destination checkout: the directory of a type and its properties.
DestDirs(type) ==
    {Join(<<outputPath, type>>), Join(<<outputPath, type, outputPropsDirName>>)}

DestStates == {"ready", "stale", "noCi"}

\* A workflow promoted long ago, since changed at its source.
StaleContent == <<"yaml", <<"o", "l", "d">> >>

StaleDest == Join(<<outputPath, deployments, PrefixedName(YmlName(<<"a">>))>>)

\* The repositories promotion may find: a manifest of at most MaxRecords
\* records of any kind, each with its files or without one of them, next to a
\* destination checkout that is ready, or holds an older google-a.yml, or has
\* no ci directory.
InitRelease ==
    /\ Idle
    /\ \E keys \in SUBSET WorkflowIDs :
         /\ Cardinality(keys) <= MaxRecords
         /\ \E kind \in [keys -> ReleaseKinds], state \in [keys -> FileStates],
               dest \in DestStates :
              LET manifest == [id \in keys |-> ReleaseRecordOf(id, kind[id])]
                  files == RepoFiles(manifest,
                               {id \in keys : state[id] # "noWorkflow"},
                               [id \in keys |-> IF state[id] = "noProperties"
                                                THEN "missing" ELSE "ok"], {})
              IN  /\ fs = IF dest = "stale"
                          THEN WithFile(files, StaleDest, StaleContent)
                          ELSE files
                  /\ dirs = BaseDirs \cup DirsOf(DOMAIN files)
                            \cup {outputPath, <<".", ".">>}
                            \cup DestDirs(deployments)
                            \cup (IF dest = "noCi" THEN {} ELSE DestDirs(ci))

NextRelease ==
    \/ StartRelease
    \/ ReleaseLoad
    \/ ReleaseRecord
    \/ ReleaseValidate
    \/ ReleaseCopy

SpecRelease == InitRelease /\ [][NextRelease]_vars

(***************************************************************************)
(* Any of the programs, and a signal at any moment of its run              *)
(***************************************************************************)

\* A repository in order: every record with its workflow file, its
\* properties file and its action README, the templates in place, the
\* destination checkout ready.
InitInterrupt ==
    /\ Idle
    /\ \E keys \in SUBSET WorkflowIDs :
         /\ Cardinality(keys) <= MaxRecords
         /\ LET manifest == [id \in keys |->
                                RecordOf(id, ActionOf(id), id \in StarterIDs, TypeOf(id))]
            IN  /\ fs = RepoFiles(manifest, keys, [id \in keys |-> "ok"],
                                  {ActionOf(id) : id \in keys})
                /\ dirs = BaseDirs \cup DirsOf(DOMAIN fs)
                          \cup {outputPath, <<".", ".">>}
                          \cup DestDirs(deployments) \cup DestDirs(ci)

NextInterrupt ==
    \/ NextReadme
    \/ NextScaffold
    \/ NextRelease
    \/ Signal

SpecInterrupt == InitInterrupt /\ [][NextInterrupt]_vars

(***************************************************************************)
(* What the README claims speak of, stated from the run's inputs (the      *)
(* files and directories the run started from), not from its steps.        *)
(***************************************************************************)

ReadmeRun == cmd \in {"readme", "gen-readme"}

\* The run is over.
Finished == pc = "idle" /\ exitCode # -1

\* The manifest the run started from could be loaded.
ManifestLoads == LoadJSON(fs0, workflowConfigPath).err = "nil"

Manifest0 == LoadJSON(fs0, workflowConfigPath).value

SegmentsOf(w) == Split(w.WorkflowPath, "/")

\* The second segment of a record's workflowPath.
ActionNameOf(w) == SegmentsOf(w)[2]

ActionReadmePathOf(w) ==
    JoinStrings(<<SegmentsOf(w)[1], SegmentsOf(w)[2], readmeFileName>>, "/")

ExistsAtStart(p) == p \in DOMAIN fs0 \/ p \in dirs0

\* A valid record: at least three segments, and the workflow file, the
\* properties file and the action README all exist.
ValidRecord(w) ==
    /\ Len(SegmentsOf(w)) >= 3
    /\ ExistsAtStart(w.WorkflowPath)
    /\ ExistsAtStart(w.PropertiesPath)
    /\ ExistsAtStart(ActionReadmePathOf(w))

\* The record's properties file holds JSON.
WellFormed(w) ==
    /\ w.PropertiesPath \in DOMAIN fs0
    /\ fs0[w.PropertiesPath][1] = "json"

AllValid == ManifestLoads /\ \A id \in DOMAIN Manifest0 : ValidRecord(Manifest0[id])

AllWellFormed == ManifestLoads /\ \A id \in DOMAIN Manifest0 : WellFormed(Manifest0[id])

ActionNames0 == {ActionNameOf(Manifest0[id]) : id \in DOMAIN Manifest0}

IDsOfAction(name) == {id \in DOMAIN Manifest0 : ActionNameOf(Manifest0[id]) = name}

\* The strings of S in ascending order.
Ascending(S) ==
    CHOOSE q \in IterationOrders(S) : \A k \in 1..(Len(q) - 1) : StrLess(q[k], q[k + 1])

HandedActions == handed[1].Actions

\* C1: for a manifest of valid records, the groups handed to the renderer
\* are strictly ascending by action name, one group per action name of the
\* manifest, and they are the same whatever order the manifest map and the
\* map of groups are ranged over.
C1_GroupsAscendingAnyOrder ==
    (ReadmeRun /\ handed # <<>> /\ AllValid) =>
        /\ \A k \in 1..(Len(HandedActions) - 1) :
               StrLess(HandedActions[k].Name, HandedActions[k + 1].Name)
        /\ {HandedActions[k].Name : k \in 1..Len(HandedActions)} = ActionNames0
        /\ \A order \in IterationOrders(DOMAIN wc) : getSortedWorkflowIDs(order) = ids
        /\ \A order \in IterationOrders(DOMAIN readmeActions) :
               getSortedActionNames(readmeActions, order) = HandedActions

\* C1's case: two groups reached the renderer, the manifest's keys ordered
\* the other way round than their actions.
C1_Witness ==
    /\ ReadmeRun /\ handed # <<>> /\ AllValid
    /\ Len(HandedActions) = 2
    /\ \E x, y \in DOMAIN Manifest0 :
          /\ StrLess(x, y)
          /\ StrLess(ActionNameOf(Manifest0[y]), ActionNameOf(Manifest0[x]))

\* The one defect of the repository is the missing workflow file of `bad`.
OnlyWorkflowFileMissing(bad) ==
    /\ ~ExistsAtStart(Manifest0[bad].WorkflowPath)
    /\ Len(SegmentsOf(Manifest0[bad])) >= 3
    /\ ExistsAtStart(Manifest0[bad].PropertiesPath)
    /\ ExistsAtStart(ActionReadmePathOf(Manifest0[bad]))
    /\ \A id \in DOMAIN Manifest0 \ {bad} : ValidRecord(Manifest0[id])
    /\ AllWellFormed

InvalidRecord(w) ==
    \/ Len(SegmentsOf(w)) < 3
    \/ ~ExistsAtStart(w.WorkflowPath)
    \/ ~ExistsAtStart(w.PropertiesPath)

\* C3: a finished run has printed a diagnostic for every invalid record of
\* the manifest, whatever its place in the sorted order.
C3_EveryInvalidRecordReported ==
    (ReadmeRun /\ ManifestLoads /\ Finished) =>
        \A id \in DOMAIN Manifest0 :
            InvalidRecord(Manifest0[id]) =>
                \E k \in 1..Len(stdout) : stdout[k].id = id

\* The rendered README, line by line.
ReadmeLines == fs[readmeOutputPath][2]

SectionLines == {k \in 1..Len(ReadmeLines) : ReadmeLines[k].kind = "section"}

RowLines == {k \in 1..Len(ReadmeLines) : ReadmeLines[k].kind = "row"}

\* The heading a row stands under.
SectionAbove(k) == ReadmeLines[Max({n \in SectionLines : n < k})].text

\* One section per action name; one row per record, under the section of the
\* record's action, marked exactly when the record is a starter.  Names and
\* paths are looked for as the template writes them.
ReadmeShowsManifest ==
    /\ readmeOutputPath \in DOMAIN fs
    /\ fs[readmeOutputPath][1] = "index"
    /\ {ReadmeLines[k].text : k \in SectionLines}
          = {EscapeHTML(name) : name \in ActionNames0}
    /\ Cardinality(SectionLines) = Cardinality(ActionNames0)
    /\ Cardinality(RowLines) = Cardinality(DOMAIN Manifest0)
    /\ \A id \in DOMAIN Manifest0 :
          \E k \in RowLines :
              /\ ReadmeLines[k].link = EscapeHTML(Manifest0[id].WorkflowPath)
              /\ \E n \in SectionLines : n < k
              /\ SectionAbove(k) = EscapeHTML(ActionNameOf(Manifest0[id]))
              /\ (ReadmeLines[k].mark = "checkmark") <=> Manifest0[id].Starter

\* The template can be read and the output file created.
CanRender ==
    /\ readmeTmplatePath \in DOMAIN fs0
    /\ CanCreate(fs0, dirs0, readmeOutputPath)

C10_WorkflowsAscendingByID ==
    (ReadmeRun /\ handed # <<>> /\ AllValid) =>
        \A g \in 1..Len(HandedActions) :
            LET members == Ascending(IDsOfAction(HandedActions[g].Name))
                workflows == HandedActions[g].Workflows
            IN  /\ Len(workflows) = Len(members)
                /\ \A k \in 1..Len(members) :
                      /\ workflows[k].WorkflowPath = Manifest0[members[k]].WorkflowPath
                      /\ workflows[k].PropertiesPath = Manifest0[members[k]].PropertiesPath

\* C10's case: a group of two workflows reached the renderer.
C10_Witness ==
    /\ ReadmeRun /\ handed # <<>> /\ AllValid
    /\ \E g \in 1..Len(HandedActions) : Len(HandedActions[g].Workflows) = 2

(***************************************************************************)
(* What the scaffolding claims speak of                                    *)
(***************************************************************************)

ScaffoldRun == cmd \in ScaffoldPrograms

\* The run was given the one workflow argument the program expects.
HasWorkflowArg == ScaffoldRun /\ Len(flags.args) = ExpectedArgs(cmd)

RequestedArg == workflowArg(cmd, flags.args)

\* Nothing on disk differs from what the run found.
Untouched == fs = fs0 /\ dirs = dirs0

Failed == Finished /\ exitCode # 0

\* C4: a scaffolding run whose workflow ID is already a key of the manifest
\* it loads never changes a file or directory, and ends in an error.
C4_DuplicateIDLeavesDiskAlone ==
    (HasWorkflowArg /\ ManifestLoads /\ workflowID(RequestedArg) \in DOMAIN Manifest0)
        => Untouched /\ (Finished => Failed)

\* A finished run refused for its ID, whose workflow file path was free.
C4_Witness ==
    /\ HasWorkflowArg
    /\ ManifestLoads
    /\ workflowID(RequestedArg) \in DOMAIN Manifest0
    /\ ~ExistsAtStart(workflowFilePath(RequestedArg))
    /\ Failed
    /\ errMsg = "workflow exists"
    /\ Untouched

\* C5: a scaffolding run whose computed workflow file path is already on
\* disk never changes a file or directory, and ends in an error, whether or
\* not the manifest has an entry for the ID.
C5_PathCollisionLeavesDiskAlone ==
    (HasWorkflowArg /\ ExistsAtStart(workflowFilePath(RequestedArg)))
        => Untouched /\ (Finished => Failed)

\* A finished run refused for the file on disk, the manifest having no entry.
C5_Witness ==
    /\ HasWorkflowArg
    /\ ManifestLoads
    /\ workflowID(RequestedArg) \notin DOMAIN Manifest0
    /\ ExistsAtStart(workflowFilePath(RequestedArg))
    /\ Failed
    /\ errMsg = "workflow file already exists"
    /\ Untouched

(***************************************************************************)
(* What the interrupt claim speaks of                                      *)
(***************************************************************************)

\* C6: once a signal has cancelled the context of a running command, no step
\* of that command changes a file or a directory, and the command ends with
\* a non-zero status.
C6_SignalStopsTheRun ==
    [][ctxDone => /\ fs' = fs
                  /\ dirs' = dirs
                  /\ (pc # "idle" /\ pc' = "idle" => exitCode' # 0)]_vars

(***************************************************************************)
(* What the promotion claims speak of                                      *)
(***************************************************************************)

ReleaseRun == cmd = "release"

\* The files below the destination root.
DestTree(f) ==
    Restrict(f, {p \in DOMAIN f : /\ Len(p) > Len(outputPath)
                                  /\ SubSeq(p, 1, Len(outputPath)) = outputPath})

\* The starter records of the manifest the run started from.
Starters0 == {id \in DOMAIN Manifest0 : Manifest0[id].Starter}

\* A record one of whose two files was not there when the run started.
MissingFile(w) ==
    ~ExistsAtStart(w.WorkflowPath) \/ ~ExistsAtStart(w.PropertiesPath)

\* C7: when a starter record of the manifest references a workflow file or
\* a properties file that does not exist, promotion never touches the
\* destination tree and ends in an error.
C7_InvalidStarterBlocksPromotion ==
    (ReleaseRun /\ ManifestLoads /\ \E id \in Starters0 : MissingFile(Manifest0[id]))
        => /\ DestTree(fs) = DestTree(fs0)
           /\ dirs = dirs0
           /\ (Finished => Failed)

\* A finished promotion refused for one starter record although another one
\* was valid and had nothing at its destination yet.
C7_Witness ==
    /\ ReleaseRun
    /\ ManifestLoads
    /\ \E bad, good \in Starters0 :
          /\ MissingFile(Manifest0[bad])
          /\ ~MissingFile(Manifest0[good])
          /\ WorkflowDest(Manifest0[good]) \notin DOMAIN fs
    /\ Failed
    /\ errMsg = "failed to process invalid configs"
    /\ DestTree(fs) = DestTree(fs0)

\* The destinations a promotion of the manifest is to fill.
ExpectedDests ==
    {WorkflowDest(Manifest0[id]) : id \in Starters0}
        \cup {PropertiesDest(Manifest0[id]) : id \in Starters0}

\* The destination files that are new or differ from what was there.
ChangedDests ==
    {p \in DOMAIN DestTree(fs) : p \notin DOMAIN fs0 \/ fs[p] # fs0[p]}

\* p holds what source held when the run started.
HoldsSource(p, source) == p \in DOMAIN fs /\ fs[p] = fs0[source]

\* C8: after a successful promotion of a manifest whose starter records all
\* reference existing files, every starter record has its workflow file and
\* its properties file at the destination with the content of the source,
\* the starter records have as many workflow files and as many properties
\* files there as there are records, and nothing else was created or replaced.
C8_TwoFilesPerStarterRecord ==
    (/\ ReleaseRun
     /\ ManifestLoads
     /\ \A id \in Starters0 : ~MissingFile(Manifest0[id])
     /\ Finished
     /\ exitCode = 0)
        => /\ \A id \in Starters0 :
                /\ HoldsSource(WorkflowDest(Manifest0[id]), Manifest0[id].WorkflowPath)
                /\ HoldsSource(PropertiesDest(Manifest0[id]), Manifest0[id].PropertiesPath)
           /\ Cardinality({WorkflowDest(Manifest0[id]) : id \in Starters0})
                 = Cardinality(Starters0)
           /\ Cardinality({PropertiesDest(Manifest0[id]) : id \in Starters0})
                 = Cardinality(Starters0)
           /\ ChangedDests \subseteq ExpectedDests

(***************************************************************************)
(* What the validation claim speaks of                                     *)
(***************************************************************************)

\* The paths validateGenerateReadme is to look at for a record.
ReferencedPaths(w) == {w.WorkflowPath, w.PropertiesPath, ActionReadmePathOf(w)}

\* Those of them that were not there when the run started.
MissingPaths(w) == {p \in ReferencedPaths(w) : Stat(fs0, dirs0, p) # "nil"}

\* The paths the run has printed a diagnostic about for a record.
ReportedPaths(id) == {stdout[n].path : n \in {m \in 1..Len(stdout) : stdout[m].id = id}}

\* The diagnostics the run has printed for a record.
ReportsOf(id) == Cardinality({n \in 1..Len(stdout) : stdout[n].id = id})

\* C11: for every record generateReadme has validated, the diagnostics
\* printed for it are as many as its referenced paths that do not exist
\* (workflow file, properties file, action README), one naming each.
C11_OneErrorPerMissingPath ==
    (cmd = "readme" /\ pc # "start" /\ ManifestLoads) =>
        \A k \in 1..(i - 1) :
            /\ ReportsOf(ids[k]) = Cardinality(MissingPaths(wc[ids[k]]))
            /\ ReportedPaths(ids[k]) = MissingPaths(wc[ids[k]])

(***************************************************************************)
(* What the manifest claims speak of                                       *)
(***************************************************************************)

\* The run ended without an error.
Succeeded == Finished /\ exitCode = 0

\* The manifest as it is on disk now.
ManifestNow == LoadJSON(fs, workflowConfigPath)

\* C12: after a successful scaffold the manifest on disk is the manifest
\* the run loaded plus one entry, under the new ID, with starter and type
\* from the flags and the paths of the two files the run created; every
\* earlier entry is there with its four fields as they were.  With the
\* second run of a behaviour this covers sequences of scaffolds.
C12_ManifestGrowsByOneEntry ==
    (ScaffoldRun /\ Succeeded) =>
        /\ ManifestLoads
        /\ ManifestNow.err = "nil"
        /\ workflowID(RequestedArg) \notin DOMAIN Manifest0
        /\ DOMAIN ManifestNow.value = DOMAIN Manifest0 \cup {workflowID(RequestedArg)}
        /\ \A id \in DOMAIN Manifest0 : ManifestNow.value[id] = Manifest0[id]
        /\ ManifestNow.value[workflowID(RequestedArg)] =
              [Starter        |-> flags.starter,
               Type           |-> flags.type,
               WorkflowPath   |-> workflowFilePath(RequestedArg),
               PropertiesPath |-> propertiesFilePath(RequestedArg)]
        /\ ~ExistsAtStart(workflowFilePath(RequestedArg))
        /\ workflowFilePath(RequestedArg) \in DOMAIN fs
        /\ propertiesFilePath(RequestedArg) \in DOMAIN fs

\* The second successful scaffold in a row, with flags other than the
\* defaults, on a manifest that had an entry already.
C12_Witness ==
    /\ ScaffoldRun /\ Succeeded
    /\ runs = 2
    /\ last.exitCode = 0
    /\ Manifest0 # <<>>
    /\ flags.starter
    /\ flags.type = ci
    /\ Cardinality(DOMAIN ManifestNow.value) = Cardinality(DOMAIN Manifest0) + 1

(***************************************************************************)
(* What the re-run claim speaks of                                         *)
(***************************************************************************)

\* The run before this one was a scaffold with its one workflow argument.
AfterScaffold ==
    /\ last.cmd \in ScaffoldPrograms
    /\ Len(last.flags.args) = ExpectedArgs(last.cmd)

PreviousArg == workflowArg(last.cmd, last.flags.args)

\* The run before this one failed after it had created a file: this run
\* found a file that was not there when the previous one started.
PreviousFailedPartway ==
    /\ AfterScaffold
    /\ last.exitCode = 1
    /\ DOMAIN fs0 # DOMAIN last.fs0

SourcesOf(p) ==
    {Manifest0[id].WorkflowPath : id \in {k \in Starters0 : WorkflowDest(Manifest0[k]) = p}}
        \cup {Manifest0[id].PropertiesPath :
                 id \in {k \in Starters0 : PropertiesDest(Manifest0[k]) = p}}

\* This promotion follows a successful one, nothing else having run between.
AfterPromotion == ReleaseRun /\ last.cmd = "release" /\ last.exitCode = 0

\* C14: a successful promotion leaves at every destination that held a file
\* before the content of a source promoted to it, and a promotion run right
\* after a successful one succeeds too and leaves the destination tree as
\* the first one left it.
C14_PromotionIsIdempotent ==
    /\ (ReleaseRun /\ ManifestLoads /\ Succeeded) =>
           \A p \in ExpectedDests \cap DOMAIN fs0 :
               \E source \in SourcesOf(p) : HoldsSource(p, source)
    /\ (AfterPromotion /\ Finished) =>
           /\ Succeeded
           /\ DestTree(fs) = DestTree(fs0)

(***************************************************************************)
(* What the invalid-path claim speaks of                                   *)
(***************************************************************************)

\* The manifest has a record whose workflowPath is shorter than
\* workflows/<action>/<file>.
HasShortPath == \E id \in DOMAIN Manifest0 : Len(SegmentsOf(Manifest0[id])) < 3

\* The workflowPaths the groups built so far were derived from.
GroupedPaths ==
    UNION {{readmeActions[n].Workflows[k].WorkflowPath :
               k \in 1..Len(readmeActions[n].Workflows)} : n \in DOMAIN readmeActions}

\* C15: when the manifest has a record whose workflowPath has fewer than
\* three segments, either generator ends with the invalid-path error and no
\* group is ever built from such a path.
C15_ShortPathIsRefused ==
    (ReadmeRun /\ ManifestLoads /\ HasShortPath) =>
        /\ Finished => Failed /\ errMsg = "invalid workflow path"
        /\ \A p \in GroupedPaths : Len(Split(p, "/")) >= 3

(***************************************************************************)
(* What the type claim speaks of                                           *)
(***************************************************************************)

automation == <<"a", "u", "t", "o", "m", "a", "t", "i", "o", "n">>

codeScanning == <<"c", "o", "d", "e", "-", "s", "c", "a", "n", "n", "i", "n", "g">>

\* The types a record may have.
Categories == {automation, ci, codeScanning, deployments}

\* C16: every record of the manifest the Scaffolder has written has one of
\* the four types, so a request with another type has added no record.
C16_PersistedTypesAreEnumerated ==
    (ScaffoldRun /\ ManifestNow.err = "nil") =>
        \A id \in DOMAIN ManifestNow.value : ManifestNow.value[id].Type \in Categories

(***************************************************************************)
(* What the heading claim speaks of                                        *)
(***************************************************************************)

\* The per-action headings of a rendered README, read back top to bottom:
\* of each "### [name](path)" line the name between the brackets.
HeadingsOf(lines) ==
    LET sections == SelectSeq(lines, LAMBDA line : line.kind = "section")
    IN  [k \in 1..Len(sections) |-> sections[k].text]

ManifestKeysOnDisk ==
    LET members == fs[workflowConfigPath][2]
    IN  [n \in 1..Len(members) |-> members[n].key]

\* C18: the manifest a successful scaffold has written lists its keys in
\* strictly ascending order, so the order is fixed by the set of keys: it
\* is the same whichever of two workflows was scaffolded first, and the
\* entries that were there before keep their order.
C18_ManifestKeysInFixedOrder ==
    (ScaffoldRun /\ Succeeded) =>
        /\ \A n \in 1..(Len(ManifestKeysOnDisk) - 1) :
               StrLess(ManifestKeysOnDisk[n], ManifestKeysOnDisk[n + 1])
        /\ ManifestKeysOnDisk = Ascending(DOMAIN ManifestNow.value)

\* A second scaffold has succeeded whose new key sorts before the key that
\* the first one had added.
C18_Witness ==
    /\ ScaffoldRun /\ Succeeded
    /\ runs = 2
    /\ last.exitCode = 0
    /\ AfterScaffold
    /\ StrLess(workflowID(RequestedArg), workflowID(PreviousArg))
    /\ Len(ManifestKeysOnDisk) >= 2

(***************************************************************************)
(* What the no-overwrite claim speaks of                                   *)
(***************************************************************************)

\* The files the run found, the manifest aside.
FilesAtStart == DOMAIN fs0 \ {workflowConfigPath}

\* C19: at every moment of a scaffolding run, every file that was there
\* when it started, the manifest aside, is still there with its content.
C19_ExistingFilesAreKept ==
    ScaffoldRun => \A p \in FilesAtStart : p \in DOMAIN fs /\ fs[p] = fs0[p]

(***************************************************************************)
(* What the validity claim speaks of                                       *)
(***************************************************************************)

\* A record generateReadme would accept as the repository is now: a
\* workflowPath of at least three segments and no validation error.
ValidNow(w) ==
    /\ Len(SegmentsOf(w)) >= MinWorkflowPathParts
    /\ validateGenerateReadme(fs, dirs, w, ActionReadmePathOf(w)) = <<>>

\* C20: a scaffolding run that starts from a repository whose manifest has
\* valid records only leaves, at every step and however it ends, a manifest
\* on disk that has valid records only.  Each run starting where the one
\* before ended, this covers every sequence of scaffolds.
C20_RecordsStayValid ==
    (ScaffoldRun /\ AllValid) =>
        /\ ManifestNow.err = "nil"
        /\ \A id \in DOMAIN ManifestNow.value : ValidNow(ManifestNow.value[id])

\* A scaffold has failed on the repository a successful scaffold left, whose
\* record is in the manifest.
C20_Witness ==
    /\ ScaffoldRun /\ AllValid
    /\ runs = 2
    /\ AfterScaffold
    /\ last.exitCode = 0
    /\ workflowID(PreviousArg) \in DOMAIN ManifestNow.value
    /\ Failed


(***************************************************************************)
(* What the manifest-key claim speaks of                                   *)
(***************************************************************************)

\* The run got as far as the duplicate check: it had its argument, the
\* manifest could be read and the ID came with an action directory.
ReachedDuplicateCheck ==
    /\ HasWorkflowArg
    /\ ManifestLoads
    /\ Len(workflowDirParts(RequestedArg)) >= MinWorkflowDirParts

\* The last segment of the slash-separated ID.
FinalSegment(arg) == LET parts == Split(arg, "/") IN parts[Len(parts)]

\* C21: the manifest key the Scaffolder checks and writes is the final
\* segment of the slash-separated ID and nothing else.  A finished run that
\* got as far as the duplicate check was refused as a duplicate exactly when
\* the final segment of its ID was a key of the manifest it loaded, whatever
\* its action directory and workflow file path; and a run that succeeded
\* added that final segment, not the whole ID, as the one new key.
C21_KeyIsTheFinalSegment ==
    (ReachedDuplicateCheck /\ Finished) =>
        /\ (errMsg = "workflow exists")
              <=> (FinalSegment(RequestedArg) \in DOMAIN Manifest0)
        /\ Succeeded =>
              /\ DOMAIN ManifestNow.value =
                    DOMAIN Manifest0 \cup {FinalSegment(RequestedArg)}
              /\ RequestedArg \notin DOMAIN ManifestNow.value

\* After p/a was scaffolded, q/a has been refused as a duplicate although
\* its action, its workflow file path and its whole ID were new.
C21_Witness ==
    /\ ReachedDuplicateCheck /\ Finished
    /\ AfterScaffold
    /\ last.exitCode = 0
    /\ PreviousArg = <<"p", "/", "a">>
    /\ RequestedArg = <<"q", "/", "a">>
    /\ errMsg = "workflow exists"
    /\ actionName(RequestedArg) # actionName(PreviousArg)
    /\ ~ExistsAtStart(workflowFilePath(RequestedArg))
    /\ RequestedArg \notin DOMAIN Manifest0

(***************************************************************************)
(* What the iteration-order claim speaks of                                *)
(***************************************************************************)

\* The copy list the loop over the manifest builds when the map is ranged
\* over in the given order.
RECURSIVE FilesToCopyIn(_, _)
FilesToCopyIn(config, order) ==
    IF order = <<>> THEN <<>>
    ELSE LET workflow == config[Head(order)]
             rest == FilesToCopyIn(config, Tail(order))
         IN  IF ~workflow.Starter THEN rest
             ELSE <<FileCopyConfig(workflow.WorkflowPath, WorkflowDest(workflow)),
                    FileCopyConfig(workflow.PropertiesPath, PropertiesDest(workflow))>>
                  \o rest

\* The copy loop run over a copy list from a given disk: whether every link
\* succeeded, and the files it left.
RECURSIVE CopyFiles(_, _, _)
CopyFiles(f, d, files) ==
    IF files = <<>> THEN [ok |-> TRUE, fs |-> f]
    ELSE LET file == Head(files)
             removed == Remove(f, d, file.Dest)
         IN  IF CanLink(removed.fs, removed.dirs, file.Source, file.Dest)
             THEN CopyFiles(WithFile(removed.fs, file.Dest, removed.fs[file.Source]),
                            removed.dirs, Tail(files))
             ELSE [ok |-> FALSE, fs |-> removed.fs]

\* What a promotion of the repository this run started from leaves when the
\* manifest is ranged over in the given order.
PromotionIn(order) == CopyFiles(fs0, dirs0, FilesToCopyIn(Manifest0, order))

\* The run's own promotion is the one PromotionIn gives for its own order.
OwnOrderAgrees ==
    (ReleaseRun /\ ManifestLoads /\ Succeeded) =>
        /\ PromotionIn(ids).ok
        /\ DestTree(PromotionIn(ids).fs) = DestTree(fs)

\* C22: the destination tree a successful promotion leaves does not depend
\* on the order the manifest was ranged over: a promotion of the same
\* repository in any other order succeeds too and leaves the same content
\* at every destination path.
C22_IterationOrderIsImmaterial ==
    (ReleaseRun /\ ManifestLoads /\ Succeeded) =>
        \A order \in IterationOrders(DOMAIN Manifest0) :
            /\ PromotionIn(order).ok
            /\ DestTree(PromotionIn(order).fs) = DestTree(fs)

\* No two starter records are promoted to the same destination path.
DistinctDests ==
    \A id, other \in Starters0 :
        id # other => /\ WorkflowDest(Manifest0[id]) # WorkflowDest(Manifest0[other])
                      /\ PropertiesDest(Manifest0[id]) # PropertiesDest(Manifest0[other])

\* The same, for manifests whose starter records have destinations of
\* their own.
IterationOrderImmaterialWithoutCollision ==
    (ReleaseRun /\ ManifestLoads /\ Succeeded /\ DistinctDests) =>
        \A order \in IterationOrders(DOMAIN Manifest0) :
            /\ PromotionIn(order).ok
            /\ DestTree(PromotionIn(order).fs) = DestTree(fs)

(***************************************************************************)
(* What the partition claim speaks of                                      *)
(***************************************************************************)

\* The places of the workflow entries handed to the template: group g,
\* entry k of that group.
HandedPlaces ==
    UNION {{<<g, k>> : k \in 1..Len(HandedActions[g].Workflows)} :
              g \in 1..Len(HandedActions)}

\* The places whose entry was made from the record w.
PlacesOf(w) ==
    {pl \in HandedPlaces :
        LET entry == HandedActions[pl[1]].Workflows[pl[2]]
        IN  /\ entry.WorkflowPath = w.WorkflowPath
            /\ entry.PropertiesPath = w.PropertiesPath
            /\ entry.Starter = w.Starter}

\* C23: in a successful README generation, of either generator, the groups
\* partition the manifest: every record has exactly one entry, in the group
\* named by the second segment of its workflowPath; no two groups have the
\* same name and none is empty; and the entries of all groups are as many
\* as the records.
C23_GroupsPartitionTheManifest ==
    (ReadmeRun /\ Succeeded) =>
        /\ \A id \in DOMAIN Manifest0 :
              /\ Cardinality(PlacesOf(Manifest0[id])) = 1
              /\ \A pl \in PlacesOf(Manifest0[id]) :
                     HandedActions[pl[1]].Name = SegmentsOf(Manifest0[id])[2]
        /\ \A g, h \in 1..Len(HandedActions) :
              HandedActions[g].Name = HandedActions[h].Name => g = h
        /\ \A g \in 1..Len(HandedActions) : Len(HandedActions[g].Workflows) >= 1
        /\ Cardinality(HandedPlaces) = Cardinality(DOMAIN Manifest0)

\* A successful generation from two records of one action: one group, with
\* both entries.
C23_Witness ==
    /\ ReadmeRun /\ Succeeded
    /\ Cardinality(DOMAIN Manifest0) = 2
    /\ Len(HandedActions) = 1
    /\ Len(HandedActions[1].Workflows) = 2

\* A successful generation from two records of two actions.
TwoGroupsOfOne ==
    /\ ReadmeRun /\ Succeeded
    /\ Len(HandedActions) = 2

(***************************************************************************)
(* The two README generators, one after the other on the same repository   *)
(***************************************************************************)

\* The generator that is not `program`.
OtherVariant(program) == IF program = "readme" THEN "gen-readme" ELSE "readme"

\* The flags each generator is started with.
VariantFlags(program) ==
    IF program = "readme"
    THEN [args |-> <<"readme">>, starter |-> FALSE, type |-> deployments]
    ELSE NoFlags

\* One generator is done; the other one is started on a copy of the
\* repository the first one started from.  What the first one returned,
\* handed to the template and left on disk is kept in `last`.
StartOtherVariant ==
    /\ pc = "idle"
    /\ runs = 1
    /\ cmd \in {"readme", "gen-readme"}
    /\ cmd' = OtherVariant(cmd)
    /\ pc' = "start"
    /\ flags' = VariantFlags(OtherVariant(cmd))
    /\ wc' = <<>>
    /\ ids' = <<>>
    /\ i' = 0
    /\ invalid' = FALSE
    /\ readmeActions' = <<>>
    /\ filesToCopy' = <<>>
    /\ handed' = <<>>
    /\ stdout' = <<>>
    /\ exitCode' = -1
    /\ errMsg' = "nil"
    /\ ctxDone' = FALSE
    /\ runs' = 2
    /\ fs' = fs0
    /\ dirs' = dirs0
    /\ last' = [cmd |-> cmd, flags |-> flags, exitCode |-> exitCode,
                fs0 |-> fs0, dirs0 |-> dirs0,
                handed |-> handed, fs |-> fs, dirs |-> dirs]
    /\ UNCHANGED <<fs0, dirs0>>

NextVariants ==
    \/ NextReadme
    \/ StartOtherVariant

SpecVariants == InitReadme /\ [][NextVariants]_vars

(***************************************************************************)
(* What the equivalence claim speaks of                                    *)
(***************************************************************************)

\* Both generators have run to their end on the same repository: this one,
\* and before it the other one, whose outcome `last` holds.
BothVariantsRan ==
    /\ ReadmeRun /\ Finished
    /\ runs = 2
    /\ "handed" \in DOMAIN last
    /\ last.cmd = OtherVariant(cmd)

\* The two runs ended alike, handed the same to the template and left the
\* same files and directories.
VariantsAgree ==
    /\ (exitCode = 0) <=> (last.exitCode = 0)
    /\ handed = last.handed
    /\ fs = last.fs
    /\ dirs = last.dirs

\* C24: on every manifest and filesystem, gen-readme.go's realMain and
\* generate's generateReadme agree: both succeed or both fail, they hand the
\* same title and the same ordered groups with the same ordered workflow
\* entries to the template, and they leave the same files on disk.
C24_VariantsAgree == BothVariantsRan => VariantsAgree

\* Every action README a record of the manifest calls for was there when
\* the run started.
ActionReadmesExist ==
    \A id \in DOMAIN Manifest0 :
        Len(SegmentsOf(Manifest0[id])) >= MinWorkflowPathParts
            => Stat(fs0, dirs0, ActionReadmePathOf(Manifest0[id])) = "nil"

\* The same, for repositories that have every action README already.
VariantsAgreeGivenActionReadmes ==
    (BothVariantsRan /\ ManifestLoads /\ ActionReadmesExist) => VariantsAgree

\* Both generators rendered the README.
BothVariantsSucceeded == BothVariantsRan /\ exitCode = 0 /\ last.exitCode = 0

(***************************************************************************)
(* What the manifest-on-error claim speaks of                              *)
(***************************************************************************)

\* The manifest file is there exactly if it was there when the run started,
\* with the same members in the same order.
ManifestFileAsFound ==
    /\ (workflowConfigPath \in DOMAIN fs) <=> (workflowConfigPath \in DOMAIN fs0)
    /\ workflowConfigPath \in DOMAIN fs => fs[workflowConfigPath] = fs0[workflowConfigPath]

\* Every step before the manifest write has done its work: the workflow
\* directory, the action README, the workflow file and the properties stub
\* are on disk.
EarlierStepsDone ==
    /\ IsDir(dirs, workflowDir(RequestedArg))
    /\ actionReadMePath(RequestedArg) \in DOMAIN fs
    /\ workflowFilePath(RequestedArg) \in DOMAIN fs
    /\ propertiesFilePath(RequestedArg) \in DOMAIN fs

\* C25: whenever a scaffolding run ends in an error, at whichever step, the
\* manifest file on disk is the one the run found; and at every moment of a
\* run, a manifest file that differs from the one found belongs to a run
\* that has succeeded, after every earlier step had done its work.
C25_ErrorLeavesManifestAsFound ==
    ScaffoldRun =>
        /\ Failed => ManifestFileAsFound
        /\ ~ManifestFileAsFound => Succeeded /\ HasWorkflowArg /\ EarlierStepsDone

\* A run that failed at the properties stub, after it had written the
\* workflow file, with a manifest that was there and could be read.
C25_Witness ==
    /\ HasWorkflowArg
    /\ ManifestLoads
    /\ Failed
    /\ errMsg \in {"failed to render properties template",
                   "failed to create properties template",
                   "failed to create properties file"}
    /\ workflowFilePath(RequestedArg) \in DOMAIN fs
    /\ ~ExistsAtStart(workflowFilePath(RequestedArg))
    /\ ManifestFileAsFound

\* A run that failed before it changed anything, and one that succeeded and
\* changed the manifest.
FailedAtOnce == ScaffoldRun /\ Failed /\ Untouched /\ ManifestLoads

ManifestChanged == ScaffoldRun /\ ~ManifestFileAsFound
=============================================================================
